---- MODULE Spec2Model ----
(***************************************************************************)
(* A model of src/utils/index.ts: downloadArticleHTML, packHTMLAssets and  *)
(* getArticleList.  Strings that the code builds by concatenation (asset   *)
(* names, rewritten references, URLs) are sequences of string tokens, so   *)
(* that "./assets/<uuid>.<ext>" and "assets/<uuid>.<ext>" are different    *)
(* values related by a prefix, as in the code.                             *)
(***************************************************************************)
EXTENDS Integers, Sequences, FiniteSets, TLC

\* ---------------------------------------------------------------- bounds
MaxWork == 4        \* calls made plus elements processed in one run

\* ------------------------------------------------------------ input sets
SeqsUpTo(S, n) == UNION {[1..k -> S] : k \in 0..n}

\* Remote URLs, as token sequences.
Hosts == {"a", "b"}
RemoteURL(h) == <<"https://", h>>
URLs == {RemoteURL(h) : h \in Hosts}
\* The empty string.
Empty == <<>>
\* src attributes of the img[src] elements: a remote URL or "".
ImgSrcs == URLs \cup {Empty}
\* url(...) texts of background declarations: remote ones, and a relative one
\* the regular expression does not match.
RelativeURL == <<"img/", "c">>
BgTexts == URLs \cup {RelativeURL}
\* href of the stylesheet links.
LinkURLs == {RemoteURL("a")}
\* Readings of new Date().getTime() (two successive milliseconds), values
\* Math.random() returns, and the MIME type of a fetched Blob.
Times == {0, 1}
Rands == {0, 1}
BlobTypes == {"image/png"}

\* An HTML input: whether #page-content exists, and what it holds.
\* Without the container there is no content to describe.
Size(h) == Len(h.imgs) + Len(h.bgs) + Len(h.links)

\* The inputs with the container whose content has at most n elements, and
\* the inputs without it (there is then no content to describe).
Shapes(n) == {s \in (0..n) \X (0..n) \X (0..n) : s[1] + s[2] + s[3] <= n}
InputsWithin(n) ==
    UNION {[container : {TRUE},
            imgs : [1..s[1] -> ImgSrcs],
            bgs : [1..s[2] -> BgTexts],
            links : [1..s[3] -> LinkURLs]] : s \in Shapes(n)}
    \cup [container : {FALSE}, imgs : {<<>>}, bgs : {<<>>},
          links : SeqsUpTo(LinkURLs, 1)]
HTMLInputs == InputsWithin(MaxWork - 1)

\* ------------------------------------------------------------- variables
VARIABLES
    now,             \* the last reading of the clock
    archives,        \* the JSZip objects on the heap: id -> set of entries
    owned,           \* ids of the archives the caller holds a reference to
    fn,              \* the function called last: "pack", "download", "list"
    pc,              \* position of the caller / the running async function
    html,            \* the html argument of the running call
    zip,             \* the archive (id) the running call writes to
    idx,             \* position of the running loop
    imgs,            \* src attribute of each img[src] element of the DOM
    pageContentHTML, \* the serialized content container
    bgImageURLs,     \* the Set of background URLs, in insertion order
    url2pathMap,     \* the Map url -> path, a set of <<url, path>>
    localLinks,      \* the accumulated <link> tags (their href values)
    outstanding,     \* fetches issued and not yet settled
    fetchLog,        \* history: the fetches the running call has issued
    wrote,           \* history: names the running call has written
    pre,             \* history: the archive argument as it was at the call
    arg,             \* history: the zip argument of the call (0: undefined)
    work,            \* calls made plus elements handed to them so far
    result,          \* what the last finished call returned or threw
    resp             \* history: the response getArticleList received

vars == <<now, archives, owned, fn, pc, html, zip, idx, imgs, pageContentHTML,
          bgImageURLs, url2pathMap, localLinks, outstanding, fetchLog, wrote,
          pre, arg, work, result, resp>>

\* ------------------------------------------------- strings and the archive
\* Number.prototype.toString of a clock reading / of a Math.random() value.
TimeStr(t) == IF t = 0 THEN "1700000000000" ELSE "1700000000001"
RandStr(r) == IF r = 0 THEN "0.25" ELSE "0.75"

\* new Date().getTime() + Math.random().toString()
Uuid(t, r) == <<TimeStr(t), RandStr(r)>>

\* mime.getExtension(type): null for a type the table does not know; the
\* template literal then renders it as "null".
MimeExt(type) == IF type = "image/png" THEN "png" ELSE "null"

\* `assets/${uuid}.${ext}`
AssetName(uuid, ext) == <<"assets/">> \o uuid \o <<".", ext>>
\* `assets/${uuid}.css`
StylesheetName(uuid) == <<"assets/">> \o uuid \o <<".", "css">>
\* `./assets/${uuid}.${ext}`, the value assigned to img.src
ImgRef(uuid, ext) == <<"./", "assets/">> \o uuid \o <<".", ext>>
\* Mutant: the path already starts with assets/, and the prefix is repeated.
BgRefRepeatsFolder(path) == <<"./", "assets/">> \o path
\* `${p1}./${path}${p3}`, the url text written for a mapped background URL
BgRef(path) == <<"./">> \o path
\* href of `<link rel="stylesheet" href="./assets/${uuid}.css">`
StylesheetHref(uuid) == <<"./", "assets/">> \o uuid \o <<".", "css">>

IndexName == <<"index.html">>
AssetsFolder == <<"assets/">>

\* A JSZip object is its files: a function from entry names to entries.
NoFiles == [n \in {} |-> [kind |-> "dir"]]
\* JSZip.file(name, data): add the entry, replacing one of the same name.
zipFile(files, name, data) ==
    [n \in DOMAIN files \cup {name} |-> IF n = name THEN data ELSE files[n]]
\* JSZip.folder(name): add the folder entry unless it is there.
zipFolder(files, name) ==
    IF name \in DOMAIN files THEN files
    ELSE zipFile(files, name, [kind |-> "dir"])

\* Map.prototype.set / has / get on a set of <<key, value>>.
MapSet(m, k, v) == {p \in m : p[1] # k} \cup {<<k, v>>}
MapHas(m, k) == \E p \in m : p[1] = k
MapGet(m, k) == (CHOOSE p \in m : p[1] = k)[2]

\* ---------------------------------------------------------- the document
\* The regular expression of lines 95 and 113 matches a declaration whose
\* url text starts with http:, https: or //.
BgMatches(text) == Len(text) > 0 /\ text[1] \in {"http://", "https://", "//"}

\* Set.prototype.add over the matches, in the order of the text: the
\* distinct matched URLs, each at its first occurrence.
RECURSIVE AddAll(_, _)
AddAll(set, texts) ==
    IF texts = <<>> THEN set
    ELSE LET u == Head(texts)
             seen == \E k \in 1..Len(set) : set[k] = u
         IN AddAll(IF BgMatches(u) /\ ~seen THEN Append(set, u) ELSE set,
                   Tail(texts))
\* Mutant: an array of every match instead of a Set.
CollectEveryMatch(texts) == SelectSeq(texts, BgMatches)
CollectBgImageURLs(texts) == AddAll(<<>>, texts)

\* The replacer of line 113: a matched URL the map has becomes ./path, any
\* other text is returned as it was.
RewriteBg(map, text) ==
    IF BgMatches(text) /\ MapHas(map, text) THEN BgRef(MapGet(map, text))
    ELSE text
RewriteAllBg(map, texts) == [k \in 1..Len(texts) |-> RewriteBg(map, texts[k])]

\* $pageContent.outerHTML: the img src attributes and the background texts.
OuterHTML(srcs, texts) == [imgs |-> srcs, bgs |-> texts]
NoHTML == OuterHTML(<<>>, <<>>)

\* The template of lines 139-160: the accumulated links and the content.
IndexHTML(links, content) ==
    [kind |-> "html", links |-> links, imgs |-> content.imgs, bgs |-> content.bgs]

\* ----------------------------------------------- getArticleList's inputs
\* Entries of an appmsgex list.
Articles == {"m1", "m2"}
AppMsgLists == {<<>>, <<"m1">>, <<"m2">>, <<"m1", "m2">>}

\* JSON.stringify / JSON.parse of a PublishInfo {appmsgex: [...]}: the text
\* is the list between the tokens that open and close the object.
StringifyInfo(list) == <<"{appmsgex:[">> \o list \o <<"]}">>
ParseInfo(text) == [appmsgex |-> SubSeq(text, 2, Len(text) - 1)]

\* An entry of publish_list: with publish_info (a JSON text, or ""), or
\* without the field.
PublishItems ==
    {[publish_type |-> "1", publish_info |-> StringifyInfo(l)] : l \in AppMsgLists}
    \cup {[publish_type |-> "1", publish_info |-> Empty]}
    \cup {[publish_type |-> "1"]}

\* JSON.stringify / JSON.parse of a PublishPage {publish_list: [...]}.
StringifyPage(list) == [open |-> "{publish_list:[", items |-> list, close |-> "]}"]
ParsePage(text) == [publish_list |-> text.items]

\* The responses of /api/appmsgpublish.
Rets == {0, 200003, 200013, -1}
ErrMsgs == {"ok", "freq control", "session expired"}
MaxItems == 2       \* entries of a publish_list
Responses ==
    [base_resp : [ret : Rets, err_msg : ErrMsgs],
     publish_page : {StringifyPage(l) : l \in SeqsUpTo(PublishItems, MaxItems)}]
NoResponse == [base_resp |-> [ret |-> 0, err_msg |-> "ok"],
               publish_page |-> StringifyPage(<<>>)]

\* ------------------------------------------------------------------ Init
NoResult == [kind |-> "none"]
\* No html argument: before the first call.
NoInput == [container |-> FALSE, imgs |-> <<>>, bgs |-> <<>>, links |-> <<>>]
\* A thrown error: its constructor's name and its message.
Throw(name, message) == [kind |-> "error", name |-> name, message |-> message]
Quiescent == {"idle", "done", "failed"}

\* The caller holds one archive of its own making, new JSZip(), and has
\* called nothing yet.
Init ==
    /\ now = 0
    /\ archives = <<NoFiles>>
    /\ owned = {1}
    /\ fn = "none"
    /\ pc = "idle"
    /\ html = NoInput
    /\ zip = 0
    /\ idx = 1
    /\ imgs = <<>>
    /\ pageContentHTML = NoHTML
    /\ bgImageURLs = <<>>
    /\ url2pathMap = {}
    /\ localLinks = <<>>
    /\ outstanding = {}
    /\ fetchLog = <<>>
    /\ wrote = {}
    /\ pre = NoFiles
    /\ arg = 0
    /\ work = 0
    /\ result = NoResult
    /\ resp = NoResponse

\* -------------------------------------------------------- packHTMLAssets
callVars == <<fn, html, zip, pre, arg, work, resp>>
loopVars == <<imgs, pageContentHTML, bgImageURLs, url2pathMap, localLinks>>

\* Mutant: the zip argument is ignored and a new JSZip always made.
ArchiveAlwaysNew(z, n) == n + 1

\* Lines 42-44: the archive the call writes to, given the zip argument
\* (0: undefined) and the number of JSZip objects on the heap.
ArchiveFor(z, n) == IF z = 0 THEN n + 1 ELSE z

\* Mutant: zip.folder('assets') runs before the content container is used.
FilesFolderFirst(files, h) == zipFolder(files, AssetsFolder)

\* Lines 46-62: the archive after the synchronous prologue.  The lookup of
\* line 48 is unguarded, so line 51 throws a TypeError on null before
\* zip.folder('assets') of line 62 is reached.
FilesAtEntry(files, h) ==
    IF h.container THEN zipFolder(files, AssetsFolder) ELSE files

\* The call, up to the first loop: packHTMLAssets(h, z).
PackCall(h, z) ==
    /\ pc \in Quiescent
    /\ work + 1 + Size(h) <= MaxWork
    /\ LET id == ArchiveFor(z, Len(archives))
           heap == IF id > Len(archives) THEN Append(archives, NoFiles)
                   ELSE archives
       IN /\ zip' = id
          /\ pre' = heap[id]
          /\ archives' = [heap EXCEPT ![id] = FilesAtEntry(@, h)]
    /\ fn' = "pack"
    /\ arg' = z
    /\ html' = h
    /\ work' = work + 1 + Size(h)
    /\ idx' = 1
    /\ imgs' = h.imgs
    /\ pageContentHTML' = NoHTML
    /\ bgImageURLs' = <<>>
    /\ url2pathMap' = {}
    /\ localLinks' = <<>>
    /\ outstanding' = {}
    /\ fetchLog' = <<>>
    /\ wrote' = {}
    /\ IF h.container
       THEN pc' = "img_loop" /\ result' = NoResult
       ELSE pc' = "failed"
            /\ result' = Throw("TypeError", "Cannot read properties of null")
    /\ UNCHANGED <<now, owned, resp>>

\* A fetch issued by the running call.
Request(phase, url) == [phase |-> phase, url |-> url, n |-> Len(fetchLog) + 1]

Issue(phase, url) ==
    /\ outstanding' = outstanding \cup {Request(phase, url)}
    /\ fetchLog' = Append(fetchLog, [phase |-> phase, url |-> url,
                                     status |-> "pending"])

\* The awaited fetch settles: resolved ("ok") or rejected ("failed").
Settle(status) ==
    /\ outstanding' = {q \in outstanding : q.n # Len(fetchLog)}
    /\ fetchLog' = [fetchLog EXCEPT ![Len(fetchLog)].status = status]

\* Lines 67-71: an img whose src is empty is skipped.
ImgSkip ==
    /\ pc = "img_loop"
    /\ idx <= Len(imgs)
    /\ imgs[idx] = Empty
    /\ idx' = idx + 1
    /\ UNCHANGED <<now, archives, owned, pc, callVars, loopVars, outstanding,
                   fetchLog, wrote, result>>

\* Mutant: the fetch is started and not awaited; the loop goes on.
ImgIssueNoAwait ==
    /\ pc = "img_loop"
    /\ idx <= Len(imgs)
    /\ imgs[idx] # Empty
    /\ Issue("img", imgs[idx])
    /\ idx' = idx + 1
    /\ UNCHANGED <<now, archives, owned, pc, callVars, loopVars, wrote, result>>

\* Line 74: await $fetch(img.src).
ImgIssue ==
    /\ pc = "img_loop"
    /\ idx <= Len(imgs)
    /\ imgs[idx] # Empty
    /\ Issue("img", imgs[idx])
    /\ pc' = "img_await"
    /\ UNCHANGED <<now, archives, owned, callVars, loopVars, idx, wrote, result>>

\* Lines 75-80: the fetch resolved with a Blob of MIME type `type`; the
\* clock reads t and Math.random() returns r.
ImgFetched(type, t, r) ==
    /\ pc = "img_await"
    /\ t >= now
    /\ LET uuid == Uuid(t, r)
           ext == MimeExt(type)
           name == AssetName(uuid, ext)
       IN /\ archives' = [archives EXCEPT ![zip] =
                 zipFile(@, name, [kind |-> "blob", type |-> type,
                                   body |-> imgs[idx]])]
          /\ wrote' = wrote \cup {name}
          /\ imgs' = [imgs EXCEPT ![idx] = ImgRef(uuid, ext)]
    /\ now' = t
    /\ Settle("ok")
    /\ idx' = idx + 1
    /\ pc' = "img_loop"
    /\ UNCHANGED <<owned, callVars, pageContentHTML, bgImageURLs, url2pathMap,
                   localLinks, result>>

\* Mutant: no try/catch around the fetch; the rejection ends the call.
ImgFetchRejectionEscapes ==
    /\ pc = "img_await"
    /\ Settle("failed")
    /\ pc' = "failed"
    /\ result' = Throw("FetchError", "fetch failed")
    /\ UNCHANGED <<now, archives, owned, callVars, loopVars, idx, wrote>>

\* Lines 81-84: the fetch rejected; the failure is logged and the loop goes on.
ImgFetchFails ==
    /\ pc = "img_await"
    /\ Settle("failed")
    /\ idx' = idx + 1
    /\ pc' = "img_loop"
    /\ UNCHANGED <<now, archives, owned, callVars, loopVars, wrote,
                   result>>

\* Lines 90-98: after the last img the content is serialized and the
\* background URLs are collected.
ImgLoopEnd ==
    /\ pc = "img_loop"
    /\ idx > Len(imgs)
    /\ pageContentHTML' = OuterHTML(imgs, html.bgs)
    /\ bgImageURLs' = CollectBgImageURLs(html.bgs)
    /\ idx' = 1
    /\ pc' = "bg_loop"
    /\ UNCHANGED <<now, archives, owned, callVars, imgs, url2pathMap,
                   localLinks, outstanding, fetchLog, wrote, result>>

\* Line 101: await $fetch(url).
BgIssue ==
    /\ pc = "bg_loop"
    /\ idx <= Len(bgImageURLs)
    /\ Issue("bg", bgImageURLs[idx])
    /\ pc' = "bg_await"
    /\ UNCHANGED <<now, archives, owned, callVars, loopVars, idx, wrote, result>>

\* Lines 102-106.
BgFetched(type, t, r) ==
    /\ pc = "bg_await"
    /\ t >= now
    /\ LET name == AssetName(Uuid(t, r), MimeExt(type))
       IN /\ archives' = [archives EXCEPT ![zip] =
                 zipFile(@, name, [kind |-> "blob", type |-> type,
                                   body |-> bgImageURLs[idx]])]
          /\ wrote' = wrote \cup {name}
          /\ url2pathMap' = MapSet(url2pathMap, bgImageURLs[idx], name)
    /\ now' = t
    /\ Settle("ok")
    /\ idx' = idx + 1
    /\ pc' = "bg_loop"
    /\ UNCHANGED <<owned, callVars, imgs, pageContentHTML, bgImageURLs,
                   localLinks, result>>

\* Lines 107-110.
BgFetchFails ==
    /\ pc = "bg_await"
    /\ Settle("failed")
    /\ idx' = idx + 1
    /\ pc' = "bg_loop"
    /\ UNCHANGED <<now, archives, owned, callVars, loopVars, wrote,
                   result>>

\* Lines 113-125: after the last background URL the occurrences are
\* rewritten and the stylesheet links are selected.
BgLoopEnd ==
    /\ pc = "bg_loop"
    /\ idx > Len(bgImageURLs)
    /\ pageContentHTML' =
           OuterHTML(pageContentHTML.imgs,
                     RewriteAllBg(url2pathMap, pageContentHTML.bgs))
    /\ idx' = 1
    /\ pc' = "css_loop"
    /\ UNCHANGED <<now, archives, owned, callVars, imgs, bgImageURLs,
                   url2pathMap, localLinks, outstanding, fetchLog, wrote,
                   result>>

\* Line 129: await $fetch(link.href).
CssIssue ==
    /\ pc = "css_loop"
    /\ idx <= Len(html.links)
    /\ Issue("css", html.links[idx])
    /\ pc' = "css_await"
    /\ UNCHANGED <<now, archives, owned, callVars, loopVars, idx, wrote, result>>

\* Lines 130-132.
CssFetched(t, r) ==
    /\ pc = "css_await"
    /\ t >= now
    /\ LET uuid == Uuid(t, r)
           name == StylesheetName(uuid)
       IN /\ archives' = [archives EXCEPT ![zip] =
                 zipFile(@, name, [kind |-> "text", body |-> html.links[idx]])]
          /\ wrote' = wrote \cup {name}
          /\ localLinks' = Append(localLinks, StylesheetHref(uuid))
    /\ now' = t
    /\ Settle("ok")
    /\ idx' = idx + 1
    /\ pc' = "css_loop"
    /\ UNCHANGED <<owned, callVars, imgs, pageContentHTML, bgImageURLs,
                   url2pathMap, result>>

\* Lines 133-136.
CssFetchFails ==
    /\ pc = "css_await"
    /\ Settle("failed")
    /\ idx' = idx + 1
    /\ pc' = "css_loop"
    /\ UNCHANGED <<now, archives, owned, callVars, loopVars, wrote,
                   result>>

\* Lines 139-164: index.html is written and the archive returned.
PackReturn ==
    /\ pc = "css_loop"
    /\ idx > Len(html.links)
    /\ archives' = [archives EXCEPT ![zip] =
           zipFile(@, IndexName, IndexHTML(localLinks, pageContentHTML))]
    /\ wrote' = wrote \cup {IndexName}
    /\ owned' = owned \cup {zip}
    /\ result' = [kind |-> "archive", id |-> zip]
    /\ pc' = "done"
    /\ UNCHANGED <<now, callVars, loopVars, idx, outstanding, fetchLog>>

\* --------------------------------------------------- downloadArticleHTML
\* The message of line 31 (in the source a Chinese sentence: "download
\* failed, please retry").
DownloadFailedMsg == "download failed, please retry"

\* Mutant: the check of lines 26-32 is left out.
DownloadOutcomeUnchecked(fullHTML) == [kind |-> "html", html |-> fullHTML]

\* Lines 24-33: what the function does with the HTML it fetched.
DownloadOutcome(fullHTML) ==
    IF ~fullHTML.container THEN Throw("Error", DownloadFailedMsg)
    ELSE [kind |-> "html", html |-> fullHTML]

\* The variables of packHTMLAssets, and the history of the last call, when
\* another function is called: its locals are gone.
NoPackCall ==
    /\ html' = NoInput
    /\ zip' = 0
    /\ pre' = NoFiles
    /\ arg' = 0
    /\ idx' = 1
    /\ imgs' = <<>>
    /\ pageContentHTML' = NoHTML
    /\ bgImageURLs' = <<>>
    /\ url2pathMap' = {}
    /\ localLinks' = <<>>
    /\ outstanding' = {}
    /\ fetchLog' = <<>>
    /\ wrote' = {}

\* Line 21: await $fetch('/api/download?url=...').
DownloadCall ==
    /\ pc \in Quiescent
    /\ work < MaxWork
    /\ fn' = "download"
    /\ pc' = "dl_await"
    /\ work' = work + 1
    /\ result' = NoResult
    /\ NoPackCall
    /\ UNCHANGED <<now, archives, owned, resp>>

\* Lines 24-33: the fetch resolved with fullHTML.
DownloadResponds(fullHTML) ==
    /\ pc = "dl_await"
    /\ work + Size(fullHTML) <= MaxWork
    /\ work' = work + Size(fullHTML)
    /\ html' = fullHTML
    /\ result' = DownloadOutcome(fullHTML)
    /\ pc' = IF result'.kind = "error" THEN "failed" ELSE "done"
    /\ UNCHANGED <<now, archives, owned, fn, zip, pre, arg, idx, loopVars,
                   outstanding, fetchLog, wrote, resp>>

\* Line 21: the fetch rejected, and the rejection is the caller's.
DownloadFetchFails ==
    /\ pc = "dl_await"
    /\ result' = Throw("FetchError", "fetch failed")
    /\ pc' = "failed"
    /\ UNCHANGED <<now, archives, owned, fn, html, zip, pre, arg, work, idx,
                   loopVars, outstanding, fetchLog, wrote, resp>>

\* -------------------------------------------------------- getArticleList
\* Mutant: each entry's list is put in front of the lists gathered so far.
RECURSIVE FlatMapPrepending(_)
FlatMapPrepending(list) ==
    IF list = <<>> THEN <<>>
    ELSE FlatMapPrepending(Tail(list))
         \o ParseInfo(Head(list).publish_info).appmsgex

\* Line 188: item => !!item.publish_info.
HasPublishInfo(item) ==
    "publish_info" \in DOMAIN item /\ item.publish_info # Empty

\* Lines 194-197: flatMap over the filtered list.
RECURSIVE FlatMapAppMsgEx(_)
FlatMapAppMsgEx(list) ==
    IF list = <<>> THEN <<>>
    ELSE ParseInfo(Head(list).publish_info).appmsgex
         \o FlatMapAppMsgEx(Tail(list))

\* Lines 186-202: what the function does with the response.
GetArticleListOutcome(r) ==
    IF r.base_resp.ret = 0
    THEN LET publish_page == ParsePage(r.publish_page)
             publish_list == SelectSeq(publish_page.publish_list, HasPublishInfo)
         IN IF Len(publish_list) = 0 THEN [kind |-> "list", value |-> <<>>]
            ELSE [kind |-> "list", value |-> FlatMapAppMsgEx(publish_list)]
    ELSE IF r.base_resp.ret = 200003 THEN Throw("Error", "session expired")
    ELSE Throw("Error", r.base_resp.err_msg)

\* Lines 175-184: await $fetch('/api/appmsgpublish', ...).
ListCall ==
    /\ pc \in Quiescent
    /\ work < MaxWork
    /\ fn' = "list"
    /\ pc' = "list_await"
    /\ work' = work + 1
    /\ result' = NoResult
    /\ resp' = NoResponse
    /\ NoPackCall
    /\ UNCHANGED <<now, archives, owned>>

\* Lines 186-202: the fetch resolved with r.
ListResponds(r) ==
    /\ pc = "list_await"
    /\ resp' = r
    /\ result' = GetArticleListOutcome(r)
    /\ pc' = IF result'.kind = "error" THEN "failed" ELSE "done"
    /\ UNCHANGED <<now, archives, owned, fn, html, zip, pre, arg, work, idx,
                   loopVars, outstanding, fetchLog, wrote>>

\* Line 175: the fetch rejected, and the rejection is the caller's.
ListFetchFails ==
    /\ pc = "list_await"
    /\ result' = Throw("FetchError", "fetch failed")
    /\ pc' = "failed"
    /\ UNCHANGED <<now, archives, owned, fn, html, zip, pre, arg, work, idx,
                   loopVars, outstanding, fetchLog, wrote, resp>>

\* The caller calls packHTMLAssets or downloadArticleHTML.
Call ==
    \/ /\ pc \in Quiescent
       /\ work < MaxWork
       /\ \E h \in InputsWithin(MaxWork - work - 1), z \in {0} \cup owned :
              PackCall(h, z)
    \/ DownloadCall

\* The running call takes its next step.
Step ==
    \/ ImgSkip
    \/ ImgIssue
    \/ \E type \in BlobTypes, t \in Times, r \in Rands : ImgFetched(type, t, r)
    \/ ImgFetchFails
    \/ ImgLoopEnd
    \/ BgIssue
    \/ \E type \in BlobTypes, t \in Times, r \in Rands : BgFetched(type, t, r)
    \/ BgFetchFails
    \/ BgLoopEnd
    \/ CssIssue
    \/ \E t \in Times, r \in Rands : CssFetched(t, r)
    \/ CssFetchFails
    \/ PackReturn
    \/ \E fullHTML \in InputsWithin(MaxWork - work) : DownloadResponds(fullHTML)
    \/ DownloadFetchFails

Next == Call \/ Step

Spec == Init /\ [][Next]_vars

\* The caller pages through the list: getArticleList alone.
NextList ==
    \/ ListCall
    \/ \E r \in Responses : ListResponds(r)
    \/ ListFetchFails

SpecList == Init /\ [][NextList]_vars

\* Synchronous code runs to its next await, and every fetch settles.
FairSpec == Spec /\ WF_vars(Step)

\* ------------------------------------------------------------ properties
PackRunning ==
    fn = "pack"
    /\ pc \in {"img_loop", "img_await", "bg_loop", "bg_await", "css_loop",
               "css_await"}
PackDone == fn = "pack" /\ pc = "done"
PackFailed == fn = "pack" /\ pc = "failed"

\* The entries of an archive under assets/ (the folder entry is not one).
AssetEntries(files) == {n \in DOMAIN files : Len(n) > 1 /\ n[1] = "assets/"}
\* A reference the packager wrote: no input text starts with "./".
IsLocal(ref) == Len(ref) > 0 /\ ref[1] = "./"
\* The entry a local reference names, if the archive has it.
Resolves(ref, files) == \E n \in AssetEntries(files) : ref = <<"./">> \o n

Indexes(log, phase) == {k \in 1..Len(log) : log[k].phase = phase}
OkFetches == {k \in 1..Len(fetchLog) : fetchLog[k].status = "ok"}

\* The case of C1: a call on a fresh archive has returned; the images have
\* distinct non-empty sources; there is no background URL and no stylesheet.
C1_Case ==
    /\ PackDone
    /\ arg = 0
    /\ \A k \in 1..Len(html.imgs) : html.imgs[k] # Empty
    /\ \A j, k \in 1..Len(html.imgs) : j # k => html.imgs[j] # html.imgs[k]
    /\ CollectBgImageURLs(html.bgs) = <<>>
    /\ html.links = <<>>
\* C1 (as claimed).  After one call on a fresh archive, for content whose N
\* images have distinct non-empty sources and that has no background URL
\* and no stylesheet: the archive has exactly as many entries under assets/
\* as image fetches succeeded, each fetched image's src is ./assets/<name>
\* of one of them, a different one per image, and every other image keeps
\* its remote src.
C1_ExactlyMAssets ==
    C1_Case =>
        LET files == archives[zip]
            doc == files[IndexName]
        IN /\ Cardinality(AssetEntries(files)) = Cardinality(OkFetches)
           /\ \A k \in OkFetches : Resolves(doc.imgs[k], files)
           /\ \A j, k \in OkFetches : j # k => doc.imgs[j] # doc.imgs[k]
           /\ \A k \in (1..Len(html.imgs)) \ OkFetches :
                  doc.imgs[k] = html.imgs[k]

LocalRefs(doc) ==
    {doc.imgs[k] : k \in {i \in 1..Len(doc.imgs) : IsLocal(doc.imgs[i])}}
    \cup {doc.bgs[k] : k \in {i \in 1..Len(doc.bgs) : IsLocal(doc.bgs[i])}}
    \cup {doc.links[k] : k \in 1..Len(doc.links)}
\* C2.  In every archive that holds an index.html, every local reference of
\* that document (a rewritten img src, a rewritten background url, every
\* stylesheet href) is "./" followed by the name of an entry under assets/
\* of the same archive, whatever fetches succeeded or failed.
C2_LocalRefsResolve ==
    \A id \in 1..Len(archives) :
        IndexName \in DOMAIN archives[id] =>
            \A ref \in LocalRefs(archives[id][IndexName]) :
                Resolves(ref, archives[id])
\* A returned archive whose document has a rewritten img, a rewritten
\* background and a local stylesheet link.
C2_Witness ==
    /\ PackDone
    /\ LET doc == archives[zip][IndexName]
       IN /\ \E k \in 1..Len(doc.imgs) : IsLocal(doc.imgs[k])
          /\ \E k \in 1..Len(doc.bgs) : IsLocal(doc.bgs[k])
          /\ Len(doc.links) > 0

Responded == ~(result.kind = "error" /\ result.name = "FetchError")
\* C5.  On HTML without #page-content, downloadArticleHTML throws the
\* "download failed" error and returns no HTML, and packHTMLAssets throws
\* and returns no archive; packHTMLAssets never runs its loops on it.
C5_MissingContainerFails ==
    /\ (fn = "download" /\ pc \in Quiescent /\ Responded /\ ~html.container)
           => pc = "failed" /\ result = Throw("Error", DownloadFailedMsg)
    /\ (fn = "pack" /\ pc # "idle" /\ ~html.container)
           => pc = "failed" /\ result.kind = "error"
\* Both functions have been called on HTML without the container: the
\* packager failed on it earlier (its archive was never returned), and the
\* downloader fails now.
C5_Witness ==
    /\ fn = "download" /\ pc = "failed" /\ ~html.container
    /\ result = Throw("Error", DownloadFailedMsg)
    /\ Len(archives) > 1 /\ Len(archives) \notin owned

\* C10.  When packHTMLAssets fails on the missing container, the archive it
\* was given is as it was at the call (no folder, asset or index.html added
\* or replaced), and no fetch has been issued.
C10_FailureLeavesArchive ==
    PackFailed =>
        /\ ~html.container
        /\ arg # 0 => zip = arg
        /\ archives[zip] = pre
        /\ fetchLog = <<>>
        /\ outstanding = {}
\* The call failed on an archive an earlier call had packed into.
C10_Witness == PackFailed /\ arg # 0 /\ IndexName \in DOMAIN pre

BgFetchesOf(url) == {k \in Indexes(fetchLog, "bg") : fetchLog[k].url = url}
AfterBgLoop == fn = "pack" /\ pc \in {"css_loop", "css_await", "done"}
\* C6.  Each distinct background URL the regular expression finds is
\* fetched exactly once in the background loop, however often it occurs.
\* Once the loop has ended, every occurrence of a URL whose fetch succeeded
\* reads the same ./assets/<name> of an entry of the archive, and every
\* occurrence of a URL whose fetch failed reads the remote URL.
C6_BackgroundOncePerURL ==
    /\ fn = "pack" =>
           \A k \in 1..Len(html.bgs) : Cardinality(BgFetchesOf(html.bgs[k])) <= 1
    /\ AfterBgLoop =>
           \A k \in 1..Len(html.bgs) :
               LET url == html.bgs[k]
                   out == pageContentHTML.bgs[k]
               IN BgMatches(url) =>
                      /\ Cardinality(BgFetchesOf(url)) = 1
                      /\ \A f \in BgFetchesOf(url) :
                             IF fetchLog[f].status = "ok"
                             THEN /\ Resolves(out, archives[zip])
                                  /\ \A j \in 1..Len(html.bgs) :
                                         html.bgs[j] = url
                                             => pageContentHTML.bgs[j] = out
                             ELSE out = url
    /\ PackDone => archives[zip][IndexName].bgs = pageContentHTML.bgs
\* A URL occurring twice was fetched once, with success, and the document
\* holds the same local path at both occurrences.
C6_Witness ==
    /\ PackDone
    /\ Len(html.bgs) = 2
    /\ html.bgs[1] = html.bgs[2]
    /\ Len(fetchLog) = 1
    /\ fetchLog[1].status = "ok"
    /\ IsLocal(archives[zip][IndexName].bgs[1])
    /\ archives[zip][IndexName].bgs[1] = archives[zip][IndexName].bgs[2]

\* C7 (as claimed).  A call given an existing archive returns that archive
\* with every entry it had still present with the same content.
C7_EveryEntryKept ==
    (PackDone /\ arg # 0) =>
        /\ result = [kind |-> "archive", id |-> arg]
        /\ \A n \in DOMAIN pre :
               n \in DOMAIN archives[zip] /\ archives[zip][n] = pre[n]

WritableNames == {IndexName} \cup {n \in wrote : Len(n) > 1 /\ n[1] = "assets/"}
\* C7 (amended).  A call given an existing archive writes to that archive and
\* returns it; it removes no entry, and an entry changes only if the call
\* wrote one of the same name: index.html, which the call always writes on
\* success, or an asset whose generated name is that of an earlier entry.
C7_AppendsAndReplacesIndex ==
    (fn = "pack" /\ arg # 0) =>
        /\ zip = arg
        /\ wrote \subseteq WritableNames
        /\ \A n \in DOMAIN pre :
               /\ n \in DOMAIN archives[zip]
               /\ n \notin wrote => archives[zip][n] = pre[n]
        /\ pc = "done" =>
               /\ result = [kind |-> "archive", id |-> arg]
               /\ archives[zip][IndexName] = IndexHTML(localLinks, pageContentHTML)
\* A second call on an archive that held an index.html and an asset: the
\* asset is as it was and the document has been replaced.
C7_Witness ==
    /\ PackDone
    /\ arg # 0
    /\ IndexName \in DOMAIN pre
    /\ archives[zip][IndexName] # pre[IndexName]
    /\ \E n \in AssetEntries(pre) : n \notin wrote /\ archives[zip][n] = pre[n]

Rank(phase) == CASE phase = "img" -> 1 [] phase = "bg" -> 2 [] OTHER -> 3
LogURLs(phase) ==
    LET sub == SelectSeq(fetchLog, LAMBDA e : e.phase = phase)
    IN [k \in 1..Len(sub) |-> sub[k].url]
IsPrefix(a, b) == Len(a) <= Len(b) /\ SubSeq(b, 1, Len(a)) = a
\* C8.  A call has at most one fetch outstanding, the one it issued last;
\* every earlier fetch has settled.  Fetches are issued in the order images
\* (in document order), background URLs (in order of first occurrence),
\* stylesheets (in document order), and index.html is written only once all
\* of them have settled.
C8_Sequential ==
    fn = "pack" =>
        /\ Cardinality(outstanding) <= 1
        /\ \A q \in outstanding :
               q.n = Len(fetchLog) /\ fetchLog[q.n].status = "pending"
        /\ \A k \in 1..Len(fetchLog) :
               fetchLog[k].status = "pending"
                   => k = Len(fetchLog) /\ outstanding # {}
        /\ \A j, k \in 1..Len(fetchLog) :
               j < k => Rank(fetchLog[j].phase) <= Rank(fetchLog[k].phase)
        /\ IsPrefix(LogURLs("img"), SelectSeq(html.imgs, LAMBDA u : u # Empty))
        /\ IsPrefix(LogURLs("bg"), CollectBgImageURLs(html.bgs))
        /\ IsPrefix(LogURLs("css"), html.links)
        /\ IndexName \in wrote =>
               /\ pc = "done"
               /\ outstanding = {}
               /\ LogURLs("img") = SelectSeq(html.imgs, LAMBDA u : u # Empty)
               /\ LogURLs("bg") = CollectBgImageURLs(html.bgs)
               /\ LogURLs("css") = html.links
\* A background fetch is outstanding after an image fetch has settled, and a
\* stylesheet is still to come.
C8_Witness ==
    /\ fn = "pack" /\ pc = "bg_await"
    /\ Len(fetchLog) = 2
    /\ fetchLog[1].phase = "img" /\ fetchLog[1].status # "pending"
    /\ Cardinality(outstanding) = 1
    /\ Len(html.links) = 1

PackReturned ==
    /\ PackDone
    /\ result = [kind |-> "archive", id |-> zip]
    /\ IndexName \in DOMAIN archives[zip]
\* C9.  A call on HTML with the container, whose fetches all settle, returns
\* an archive that holds index.html, whatever fetches fail; the call fails
\* only on the missing container.
C9_ReturnsDespiteFailures ==
    /\ [](PackFailed => ~html.container)
    /\ (PackRunning ~> PackReturned)
\* The call returned although an image, a background and a stylesheet fetch
\* all failed.
C9_Witness ==
    /\ PackReturned
    /\ Len(fetchLog) = 3
    /\ \A k \in 1..3 : fetchLog[k].status = "failed"
    /\ fetchLog[1].phase = "img" /\ fetchLog[2].phase = "bg"
    /\ fetchLog[3].phase = "css"

ListSettled == fn = "list" /\ pc \in Quiescent /\ Responded
SessionExpired == Throw("Error", "session expired")
\* C3 (as claimed).  base_resp.ret = 200003 raises the "session expired"
\* error, and no response with another non-zero ret raises an error equal to
\* it, whatever its err_msg.
C3_SessionExpiredDistinct ==
    ListSettled =>
        /\ resp.base_resp.ret = 200003 => pc = "failed" /\ result = SessionExpired
        /\ resp.base_resp.ret \notin {0, 200003}
               => pc = "failed" /\ result # SessionExpired

Decoded(text) == CHOOSE l \in AppMsgLists : StringifyInfo(l) = text
HasInfo(item) == "publish_info" \in DOMAIN item /\ item.publish_info # Empty
RECURSIVE Concatenation(_)
Concatenation(items) ==
    IF items = <<>> THEN <<>>
    ELSE (IF HasInfo(Head(items)) THEN Decoded(Head(items).publish_info)
          ELSE <<>>) \o Concatenation(Tail(items))
\* C4.  With base_resp.ret = 0 the call returns the in-order concatenation
\* of the appmsgex lists decoded from the entries that have publish info;
\* with no such entry it returns the empty sequence.
C4_FlattenedInOrder ==
    (ListSettled /\ resp.base_resp.ret = 0) =>
        LET items == resp.publish_page.items
        IN /\ pc = "done"
           /\ result = [kind |-> "list", value |-> Concatenation(items)]
           /\ (\A k \in 1..Len(items) : ~HasInfo(items[k]))
                  => result.value = <<>>
\* Two entries with publish info, lists in an order the result keeps.
C4_Witness ==
    /\ ListSettled /\ resp.base_resp.ret = 0
    /\ Len(resp.publish_page.items) = 2
    /\ result = [kind |-> "list", value |-> <<"m2", "m1", "m2">>]

====
